---- MODULE Spec2Model ----
(***************************************************************************)
(* Model of src/app.py: the process-global conversation transcript         *)
(* (chat_history), the Gemini gateway (generate_recipe_with_ai) and the    *)
(* five Flask routes.                                                      *)
(*                                                                         *)
(* Spec      : requests handled one at a time, one action per handler.     *)
(* SpecConc  : handlers interleave at the statements that touch the        *)
(*             global chat_history.                                        *)
(*                                                                         *)
(* Python lists are 0-based; a list is modelled by a sequence whose        *)
(* element k+1 is the list's element k.  found_index keeps the Python      *)
(* numbering (-1 = not found).                                             *)
(***************************************************************************)
EXTENDS Integers, Sequences, FiniteSets, TLC

\* ---------------------------------------------------------------- bounds
\* longest transcript the serial specification lets /ask build
MaxLen == 6
\* number of /ask requests the interleaved specification admits
MaxReq == 3
\* request bodies' message values
UserTexts == {"a", "b"}
\* texts the external model may answer with ("a": an echo of a user text)
ReplyTexts == {"a", "r"}
\* handler threads of the interleaved specification
Handlers == {1, 2}

\* ------------------------------------------------------ program constants
\* app.py:57, the string returned when client is None
ConfigErrorString == "config_error"
\* app.py:85, the string returned when generate_content raises APIError
ApiErrorString == "api_error"
\* app.py:17, the value of client without a credential
None == "None"
\* app.py:21, a constructed genai.Client
Configured == "Client"

VARIABLES
    chat_history,   \* app.py:14  the global list of {"role","content"} dicts
    client,         \* app.py:17-27  None or a client, fixed at import time
    last,           \* observation of the request handled last (Spec)
    base,           \* length left by the last clear / rewind-truncation
    appends,        \* number of list.append calls since then
    pc,             \* SpecConc: position of each handler thread
    loc,            \* SpecConc: each handler's locals
    owner,          \* SpecConc: request id that appended each element
    nextReq,        \* SpecConc: next request id
    raced           \* SpecConc: some step ran while another handler was
                    \*           inside its handler

vars == <<chat_history, client, last, base, appends,
          pc, loc, owner, nextReq, raced>>
serialVars == <<chat_history, client, last, base, appends>>
concVars == <<pc, loc, owner, nextReq, raced>>

\* ------------------------------------------------------------ pure parts
Msg(role, content) == [role |-> role, content |-> content]

\* variant: insert(0, ...) in place of append
append_front(history, role, content) == <<Msg(role, content)>> \o history

\* list.append (app.py:100, app.py:106)
append(history, role, content) == Append(history, Msg(role, content))

\* variant: history[:k + 1], the slice keeps the element at k
Prefix_inclusive(history, k) ==
    SubSeq(history, 1, IF k + 1 < Len(history) THEN k + 1 ELSE Len(history))

\* history[:k] for k >= 0 (app.py:126); Python clamps k to len(history)
Prefix(history, k) ==
    SubSeq(history, 1, IF k < Len(history) THEN k ELSE Len(history))

\* variant: the scan compares the content only, not the role
RECURSIVE ScanBack_anyrole(_, _, _)
ScanBack_anyrole(history, text, i) ==
    IF i < 0 THEN -1
    ELSE IF history[i + 1].content = text
         THEN i
         ELSE ScanBack_anyrole(history, text, i - 1)

\* app.py:117-122: scan from the end, stop at the first user message whose
\* content equals the text; -1 when there is none
RECURSIVE ScanBack(_, _, _)
ScanBack(history, text, i) ==
    IF i < 0 THEN -1
    ELSE IF history[i + 1].role = "user" /\ history[i + 1].content = text
         THEN i
         ELSE ScanBack(history, text, i - 1)

\* variant: range(len(...)) without reversed(), the oldest match wins
RECURSIVE ScanForward(_, _, _)
ScanForward(history, text, i) ==
    IF i >= Len(history) THEN -1
    ELSE IF history[i + 1].role = "user" /\ history[i + 1].content = text
         THEN i
         ELSE ScanForward(history, text, i + 1)

found_index_forward(history, text) == ScanForward(history, text, 0)

found_index(history, text) == ScanBack(history, text, Len(history) - 1)

\* variant: the slice is taken one past the match, the message survives
rewind_keep(history, text) ==
    IF found_index(history, text) # -1
    THEN Prefix(history, found_index(history, text) + 1)
    ELSE history

\* app.py:124-126
rewind(history, text) ==
    IF found_index(history, text) # -1
    THEN Prefix(history, found_index(history, text))
    ELSE history

\* app.py:60-71: the Content list handed to the API; role user stays user,
\* every other role becomes model, system messages are dropped
RECURSIVE to_contents(_)
to_contents(history) ==
    IF history = <<>> THEN <<>>
    ELSE LET m == history[Len(history)]
             rest == to_contents(SubSeq(history, 1, Len(history) - 1))
         IN IF m.role # "system"
            THEN Append(rest, [role |-> IF m.role = "user" THEN "user" ELSE "model",
                               text |-> m.content])
            ELSE rest

\* variant: the "client is None" test is missing, the call is always made
generate_unguarded(cl, history) ==
    {[kind |-> "returned", text |-> r, calls |-> 1,
      api |-> "text", sent |-> to_contents(history)] : r \in ReplyTexts}
    \cup
    {[kind |-> "returned", text |-> ApiErrorString, calls |-> 1,
      api |-> "APIError", sent |-> to_contents(history)]}

\* app.py:51-85: every way one invocation can end.
\*   client None            -> returns the configuration string, no call
\*   generate_content ok    -> returns response.text
\*   raises APIError        -> caught at line 83, returns the API string
\*   raises anything else   -> not matched by "except APIError", propagates
generate_recipe_with_ai(cl, history) ==
    IF cl = None
    THEN {[kind |-> "returned", text |-> ConfigErrorString, calls |-> 0,
           api |-> "none", sent |-> <<>>]}
    ELSE {[kind |-> "returned", text |-> r, calls |-> 1,
           api |-> "text", sent |-> to_contents(history)] : r \in ReplyTexts}
         \cup
         {[kind |-> "returned", text |-> ApiErrorString, calls |-> 1,
           api |-> "APIError", sent |-> to_contents(history)]}
         \cup
         {[kind |-> "raised", text |-> "", calls |-> 1,
           api |-> "Exception", sent |-> to_contents(history)]}

NoLast == [op |-> "none", arg |-> "", pre |-> <<>>, status |-> 0,
           message |-> "", new_len |-> -1, calls |-> 0, api |-> "none",
           sent |-> <<>>]

\* ------------------------------------------------------------------ Init
Init ==
    /\ chat_history = <<>>
    /\ client \in {None, Configured}
    /\ last = NoLast
    /\ base = 0
    /\ appends = 0
    /\ pc = [h \in Handlers |-> "idle"]
    /\ loc = [h \in Handlers |-> [req |-> 0, found |-> -1, reply |-> ""]]
    /\ owner = <<>>
    /\ nextReq = 1
    /\ raced = FALSE

\* ------------------------------------------- Spec: one request at a time
\* GET /  (app.py:88-93)
index ==
    /\ chat_history' = <<>>
    /\ last' = [NoLast EXCEPT !.op = "index", !.pre = chat_history, !.status = 200]
    /\ base' = 0
    /\ appends' = 0
    /\ UNCHANGED <<client, concVars>>

\* POST /ask  (app.py:95-108)
ask_ai ==
    \E user_input \in UserTexts :
      /\ Len(chat_history) + 2 <= MaxLen
      /\ LET h1 == append(chat_history, "user", user_input)
         IN \E out \in generate_recipe_with_ai(client, h1) :
              IF out.kind = "returned"
              THEN /\ chat_history' = append(h1, "assistant", out.text)
                   /\ appends' = appends + 2
                   /\ last' = [NoLast EXCEPT !.op = "ask", !.arg = user_input,
                                 !.pre = chat_history, !.status = 200,
                                 !.message = out.text, !.calls = out.calls,
                                 !.api = out.api, !.sent = out.sent]
              ELSE \* the exception leaves line 104; line 106 never runs
                   /\ chat_history' = h1
                   /\ appends' = appends + 1
                   /\ last' = [NoLast EXCEPT !.op = "ask", !.arg = user_input,
                                 !.pre = chat_history, !.status = 500,
                                 !.calls = out.calls,
                                 !.api = out.api, !.sent = out.sent]
      /\ UNCHANGED <<client, base, concVars>>

\* POST /undo_history  (app.py:111-128)
undo_history ==
    \E original_message_text \in UserTexts \cup ReplyTexts :
      /\ chat_history' = rewind(chat_history, original_message_text)
      /\ last' = [NoLast EXCEPT !.op = "undo", !.arg = original_message_text,
                    !.pre = chat_history, !.status = 200,
                    !.new_len = Len(chat_history')]
      /\ IF found_index(chat_history, original_message_text) # -1
         THEN \* elements [0, found_index) are what the slice keeps
              /\ base' = found_index(chat_history, original_message_text)
              /\ appends' = 0
         ELSE UNCHANGED <<base, appends>>
      /\ UNCHANGED <<client, concVars>>

\* variant: the "global chat_history" declaration is missing, the
\* assignment binds a local and the global list is untouched
reset_chat_local ==
    /\ last' = [NoLast EXCEPT !.op = "reset", !.pre = chat_history, !.status = 200]
    /\ UNCHANGED <<chat_history, client, base, appends, concVars>>

\* POST /reset  (app.py:131-136)
reset_chat ==
    /\ chat_history' = <<>>
    /\ last' = [NoLast EXCEPT !.op = "reset", !.pre = chat_history, !.status = 200]
    /\ base' = 0
    /\ appends' = 0
    /\ UNCHANGED <<client, concVars>>

\* GET /privacy  (app.py:139-142)
privacy_policy ==
    /\ last' = [NoLast EXCEPT !.op = "privacy", !.pre = chat_history, !.status = 200]
    /\ UNCHANGED <<chat_history, client, base, appends, concVars>>

Next ==
    \/ index
    \/ ask_ai
    \/ undo_history
    \/ reset_chat
    \/ privacy_policy

Spec == Init /\ [][Next]_vars

\* ------------------------------------- SpecConc: interleaved handlers
\* another handler is between the first and the last statement of its route
Overlap(h) == \E g \in Handlers \ {h} : pc[g] # "idle"

Idle(h) == [req |-> 0, found |-> -1, reply |-> ""]

\* /ask, app.py:98-100: read the body, append the user turn
ConcAskRecv(h) ==
    \E user_input \in UserTexts :
      /\ pc[h] = "idle"
      /\ nextReq <= MaxReq
      /\ chat_history' = append(chat_history, "user", user_input)
      /\ owner' = Append(owner, nextReq)
      /\ loc' = [loc EXCEPT ![h].req = nextReq]
      /\ nextReq' = nextReq + 1
      /\ pc' = [pc EXCEPT ![h] = "ask_call"]
      /\ raced' = (raced \/ Overlap(h))
      /\ UNCHANGED <<client, last, base, appends>>

\* /ask, app.py:102-104: the blocking Gateway call on the current list
ConcAskCall(h) ==
    /\ pc[h] = "ask_call"
    /\ \E out \in generate_recipe_with_ai(client, chat_history) :
         IF out.kind = "returned"
         THEN /\ loc' = [loc EXCEPT ![h].reply = out.text]
              /\ pc' = [pc EXCEPT ![h] = "ask_reply"]
         ELSE /\ loc' = [loc EXCEPT ![h] = Idle(h)]
              /\ pc' = [pc EXCEPT ![h] = "idle"]
    /\ raced' = (raced \/ Overlap(h))
    /\ UNCHANGED <<chat_history, client, last, base, appends, owner, nextReq>>

\* /ask, app.py:106-108: append the assistant turn to whatever list the
\* global names now
ConcAskReply(h) ==
    /\ pc[h] = "ask_reply"
    /\ chat_history' = append(chat_history, "assistant", loc[h].reply)
    /\ owner' = Append(owner, loc[h].req)
    /\ loc' = [loc EXCEPT ![h] = Idle(h)]
    /\ pc' = [pc EXCEPT ![h] = "idle"]
    /\ raced' = (raced \/ Overlap(h))
    /\ UNCHANGED <<client, last, base, appends, nextReq>>

\* /undo_history, app.py:115-122: the scan that sets found_index
ConcUndoScan(h) ==
    \E original_message_text \in UserTexts \cup ReplyTexts :
      /\ pc[h] = "idle"
      /\ loc' = [loc EXCEPT ![h].found =
                    found_index(chat_history, original_message_text)]
      /\ pc' = [pc EXCEPT ![h] = "undo_rebind"]
      /\ raced' = (raced \/ Overlap(h))
      /\ UNCHANGED <<chat_history, client, last, base, appends, owner, nextReq>>

\* /undo_history, app.py:124-128: slice the list the global names now and
\* rebind the global
ConcUndoRebind(h) ==
    /\ pc[h] = "undo_rebind"
    /\ IF loc[h].found # -1
       THEN /\ chat_history' = Prefix(chat_history, loc[h].found)
            /\ owner' = SubSeq(owner, 1, Len(chat_history'))
       ELSE UNCHANGED <<chat_history, owner>>
    /\ loc' = [loc EXCEPT ![h] = Idle(h)]
    /\ pc' = [pc EXCEPT ![h] = "idle"]
    /\ raced' = (raced \/ Overlap(h))
    /\ UNCHANGED <<client, last, base, appends, nextReq>>

\* /reset, app.py:135: one rebinding of the global
ConcReset(h) ==
    /\ pc[h] = "idle"
    /\ chat_history' = <<>>
    /\ owner' = <<>>
    /\ raced' = (raced \/ Overlap(h))
    /\ UNCHANGED <<client, last, base, appends, pc, loc, nextReq>>

\* GET /, app.py:92: one rebinding of the global
ConcIndex(h) ==
    /\ pc[h] = "idle"
    /\ chat_history' = <<>>
    /\ owner' = <<>>
    /\ raced' = (raced \/ Overlap(h))
    /\ UNCHANGED <<client, last, base, appends, pc, loc, nextReq>>

NextConc ==
    \E h \in Handlers :
      \/ ConcAskRecv(h)
      \/ ConcAskCall(h)
      \/ ConcAskReply(h)
      \/ ConcUndoScan(h)
      \/ ConcUndoRebind(h)
      \/ ConcReset(h)
      \/ ConcIndex(h)

SpecConc == Init /\ [][NextConc]_vars

\* ------------------------------------------------- properties under Spec
\* positions (1-based) of the user messages whose content is text
UserMatches(history, text) ==
    {i \in 1..Len(history) :
        history[i].role = "user" /\ history[i].content = text}

MaxOf(S) == CHOOSE x \in S : \A y \in S : y <= x

Undone == last.op = "undo"
Asked == last.op = "ask"

\* C1: after /undo_history with a text that some user message carries, the
\* transcript is the prior transcript's first i elements, i the (0-based)
\* index of the last such message, and new_history_length is i.
C1_RewindToMostRecent ==
    (Undone /\ UserMatches(last.pre, last.arg) # {}) =>
        LET i == MaxOf(UserMatches(last.pre, last.arg)) - 1
        IN /\ chat_history = SubSeq(last.pre, 1, i)
           /\ last.new_len = i

\* the text was sent twice and the later copy had a reply after it
C1_Witness ==
    /\ Undone
    /\ Cardinality(UserMatches(last.pre, last.arg)) >= 2
    /\ Len(last.pre) > MaxOf(UserMatches(last.pre, last.arg))
    /\ Len(chat_history) = MaxOf(UserMatches(last.pre, last.arg)) - 1

\* C2 as stated: after /undo_history with a text, no user message with
\* that content remains in the transcript.
C2_NoMatchRemains ==
    Undone => UserMatches(chat_history, last.arg) = {}

\* C2 amended: after /undo_history with a text that some user message
\* carries, the transcript is a proper prefix of the prior one that ends
\* before the most recent such message, so exactly one of the matching
\* user messages (the most recent) is gone and the older ones remain.
C2_MostRecentMatchGone ==
    (Undone /\ UserMatches(last.pre, last.arg) # {}) =>
        /\ Len(chat_history) < MaxOf(UserMatches(last.pre, last.arg))
        /\ chat_history = SubSeq(last.pre, 1, Len(chat_history))
        /\ Cardinality(UserMatches(chat_history, last.arg))
             = Cardinality(UserMatches(last.pre, last.arg)) - 1

\* an older copy of the text survives the rewind
C2_Witness ==
    /\ Undone
    /\ UserMatches(last.pre, last.arg) # {}
    /\ UserMatches(chat_history, last.arg) # {}

\* C3: /undo_history with a text no user message carries leaves the
\* transcript as it was and reports its unchanged length.
C3_NoMatchNoOp ==
    (Undone /\ UserMatches(last.pre, last.arg) = {}) =>
        /\ chat_history = last.pre
        /\ last.new_len = Len(last.pre)

\* the text is the content of an assistant message only
C3_Witness ==
    /\ Undone
    /\ UserMatches(last.pre, last.arg) = {}
    /\ \E i \in 1..Len(last.pre) :
          last.pre[i].role = "assistant" /\ last.pre[i].content = last.arg
    /\ chat_history = last.pre

\* C4 as stated: every /ask ends with the transcript extended by the user
\* message and the assistant message carrying the Gateway's return value,
\* which is also the response body's message; the length grows by 2.
C4_AskAppendsTwo ==
    Asked =>
        /\ last.status = 200
        /\ \E out \in generate_recipe_with_ai(client,
                         append(last.pre, "user", last.arg)) :
              out.kind = "returned" /\ out.text = last.message
        /\ chat_history = last.pre \o <<Msg("user", last.arg),
                                        Msg("assistant", last.message)>>
        /\ Len(chat_history) = Len(last.pre) + 2

\* C5 as stated: when the external call fails, /ask still answers with the
\* fixed API-error string and the transcript ends with the user message
\* followed by that string as the assistant turn.
C5_ApiFailureSurfaced ==
    (Asked /\ last.api \in {"APIError", "Exception"}) =>
        /\ last.status = 200
        /\ last.message = ApiErrorString
        /\ chat_history = last.pre \o <<Msg("user", last.arg),
                                        Msg("assistant", ApiErrorString)>>

\* C6: without a credential every /ask makes no external call, answers
\* with the configuration-error string and appends both turns.
C6_NotConfigured ==
    (client = None /\ Asked) =>
        /\ last.calls = 0
        /\ last.sent = <<>>
        /\ last.status = 200
        /\ last.message = ConfigErrorString
        /\ chat_history = last.pre \o <<Msg("user", last.arg),
                                        Msg("assistant", ConfigErrorString)>>

\* a later /ask of a process without a credential
C6_Witness ==
    /\ client = None
    /\ Asked
    /\ Len(last.pre) >= 2
    /\ chat_history[Len(chat_history)].content = ConfigErrorString

\* C7 as stated: the length equals the number of appends since the last
\* clear or rewind-truncation.
C7_SizeIsAppends ==
    Len(chat_history) = appends

\* C7 amended: the length equals the length the last clear (0) or
\* rewind-truncation (the index i it cut at) left, plus the number of
\* appends since.
C7_SizeIsBasePlusAppends ==
    Len(chat_history) = base + appends

\* appends on top of a non-empty rewound prefix
C7_Witness ==
    /\ base > 0
    /\ appends > 0
    /\ Len(chat_history) = base + appends

\* C8: after POST /reset or GET / the transcript is empty; GET /privacy
\* leaves it as it was.
C8_ClearEmpties ==
    /\ (last.op \in {"reset", "index"} => Len(chat_history) = 0)
    /\ (last.op = "privacy" => chat_history = last.pre)

\* a reset of a non-empty transcript
C8_Witness ==
    /\ last.op = "reset"
    /\ Len(last.pre) > 0
    /\ chat_history = <<>>

\* C10 as stated: handled one at a time, the transcript always has even
\* length and alternates user, assistant, ...; a rewind cuts at an even
\* index and the Gateway sees the user message just received last.
C10_Alternation ==
    /\ Len(chat_history) % 2 = 0
    /\ \A i \in 1..Len(chat_history) :
          chat_history[i].role = IF i % 2 = 1 THEN "user" ELSE "assistant"
    /\ (Undone => last.new_len % 2 = 0)
    /\ ((Asked /\ last.calls = 1) =>
          /\ last.sent # <<>>
          /\ last.sent[Len(last.sent)] = [role |-> "user", text |-> last.arg])

\* --------------------------------------------- properties under SpecConc
\* an assistant reply that does not directly follow the user message of
\* its own request
Corrupted ==
    \E i \in 1..Len(chat_history) :
        /\ chat_history[i].role = "assistant"
        /\ \/ i = 1
           \/ chat_history[i - 1].role # "user"
           \/ owner[i - 1] # owner[i]

\* C9: the transcript has no guard, so interleaved handlers reach a
\* transcript whose ordering is corrupted (C9_Witness); the corruption
\* comes from the interleaving alone: as long as no step ran while another
\* handler was inside its route, every reply directly follows the user
\* message it answers.
C9_CorruptionOnlyByInterleaving ==
    Corrupted => raced

\* a reply appended after another request's user message, two user
\* messages adjacent in front of it
C9_Witness ==
    /\ raced
    /\ \E i \in 3..Len(chat_history) :
          /\ chat_history[i].role = "assistant"
          /\ chat_history[i - 1].role = "user"
          /\ chat_history[i - 2].role = "user"
          /\ owner[i] = owner[i - 2]
          /\ owner[i] # owner[i - 1]

====
